---- MODULE Spec2Model ----
(***************************************************************************)
(* Countries catalog (OfekSagiv/Countries): the grid page (js/index.js),   *)
(* the detail page (js/details.js and the detail variant in js/common.js)  *)
(* and the helpers of js/common.js.                                        *)
(*                                                                         *)
(* Strings are sequences of characters; a character is written as a short  *)
(* TLA+ string naming one UTF-16 code unit:                                *)
(*   "a".."z", "A".."Z"  ASCII letters                                     *)
(*   "sp"        U+0020 SPACE                                              *)
(*   "d1"        U+0031 DIGIT ONE                                          *)
(*   "apos"      U+0027 APOSTROPHE                                         *)
(*   "e_acute"   U+00E9, "E_acute" U+00C9 (precomposed)                    *)
(*   "acute"     U+0301 COMBINING ACUTE ACCENT      (ccc 230)              *)
(*   "cgj"       U+034F COMBINING GRAPHEME JOINER   (ccc 0)                *)
(*   "alef"      U+05D0 HEBREW LETTER ALEF                                 *)
(*   "etnahta"   U+0591 HEBREW ACCENT ETNAHTA       (ccc 220)              *)
(*   "sheva"     U+05B0 HEBREW POINT SHEVA          (ccc 10)               *)
(***************************************************************************)
EXTENDS Integers, Sequences, FiniteSets, TLC

\* ------------------------------------------------------------------ bounds
\* longest dataset drawn for the pure filter and for the detail page
MaxRecords == 2
\* region selections and search inputs handled on the index page
MaxInteractions == 2
\* longest string given to normalize on its own
MaxLen == 3

\* --------------------------------------------------------------- characters
UpperLetters == <<"A","B","C","D","E","F","G","H","I","J","K","L","M",
                  "N","O","P","Q","R","S","T","U","V","W","X","Y","Z">>
LowerLetters == <<"a","b","c","d","e","f","g","h","i","j","k","l","m",
                  "n","o","p","q","r","s","t","u","v","w","x","y","z">>

Range(s) == {s[i] : i \in 1..Len(s)}

UpperSet == Range(UpperLetters)
LowerSet == Range(LowerLetters)

\* the lowercase letter of each uppercase ASCII letter
LowerOf ==
    [c \in UpperSet |->
        LowerLetters[CHOOSE i \in 1..Len(UpperLetters) : UpperLetters[i] = c]]

\* [a-zA-Z] of the search handler's regular expression
IsAsciiLetter(c) == c \in UpperSet \/ c \in LowerSet

\* \s of the regular expression, and the characters String.prototype.trim removes
IsWhitespace(c) == c = "sp"

\* Unicode canonical decomposition of one character (String.prototype.normalize("NFD"))
Decompose(c) ==
    CASE c = "e_acute" -> <<"e", "acute">>
      [] c = "E_acute" -> <<"E", "acute">>
      [] OTHER         -> <<c>>

\* Unicode canonical combining class
CombiningClass(c) ==
    CASE c = "acute"   -> 230
      [] c = "etnahta" -> 220
      [] c = "sheva"   -> 10
      [] OTHER         -> 0

\* the character class [\u0300-\u036f] of normalize's replace
InStrippedRange(c) == c \in {"acute", "cgj"}

\* String.prototype.toLowerCase on one character
ToLower(c) ==
    IF c \in UpperSet THEN LowerOf[c]
    ELSE IF c = "E_acute" THEN "e_acute" ELSE c

\* ------------------------------------------------------------------ strings
RECURSIVE DecomposeAll(_)
DecomposeAll(s) ==
    IF s = <<>> THEN <<>> ELSE Decompose(Head(s)) \o DecomposeAll(Tail(s))

\* canonical ordering: a combining mark moves left over marks of a higher class
RECURSIVE InsertMark(_, _)
InsertMark(s, c) ==
    IF s = <<>> \/ CombiningClass(c) = 0
                \/ CombiningClass(s[Len(s)]) <= CombiningClass(c)
    THEN Append(s, c)
    ELSE Append(InsertMark(SubSeq(s, 1, Len(s) - 1), c), s[Len(s)])

RECURSIVE CanonicalOrder(_)
CanonicalOrder(s) ==
    IF s = <<>> THEN <<>>
    ELSE InsertMark(CanonicalOrder(SubSeq(s, 1, Len(s) - 1)), s[Len(s)])

NFD(s) == CanonicalOrder(DecomposeAll(s))

StripMarks(s) == SelectSeq(s, LAMBDA c : ~InStrippedRange(c))

toLowerCase(s) == [i \in 1..Len(s) |-> ToLower(s[i])]

\* a normalize that strips before it decomposes
normalizeStripFirst(str) == toLowerCase(NFD(StripMarks(str)))

\* const normalize = (str) => str.normalize("NFD").replace(/[\u0300-\u036f]/g, "").toLowerCase()
normalize(str) == toLowerCase(StripMarks(NFD(str)))

startsWith(s, p) == Len(p) <= Len(s) /\ SubSeq(s, 1, Len(p)) = p

Prefix(s, k) == SubSeq(s, 1, k)

\* String.prototype.trim
RECURSIVE TrimStart(_)
TrimStart(s) ==
    IF s # <<>> /\ IsWhitespace(Head(s)) THEN TrimStart(Tail(s)) ELSE s

RECURSIVE TrimEnd(_)
TrimEnd(s) ==
    IF s # <<>> /\ IsWhitespace(s[Len(s)])
    THEN TrimEnd(SubSeq(s, 1, Len(s) - 1)) ELSE s

trim(s) == TrimEnd(TrimStart(s))

\* ------------------------------------------------------------------ records
Str_all      == <<"a","l","l">>
Str_Americas == <<"A","m","e","r","i","c","a","s">>
Str_Europe   == <<"E","u","r","o","p","e">>
Str_europe   == <<"e","u","r","o","p","e">>
Str_Asia     == <<"A","s","i","a">>
Str_Mexico   == <<"M","e","x","i","c","o">>
Str_MexicoAc == <<"M","e_acute","x","i","c","o">>
Str_Monaco   == <<"M","o","n","a","c","o">>
Str_Alef     == <<"alef","etnahta","cgj","sheva">>

Country(n, r) == [name |-> n, region |-> r]

SampleCountries ==
    { Country(Str_MexicoAc, Str_Americas),
      Country(Str_Monaco,   Str_Europe),
      Country(Str_Monaco,   Str_Americas),
      Country(Str_Mexico,   <<"E","U","R","O","P","E_acute">>),
      Country(Str_Alef,     Str_Asia) }

\* the dataset of the end-to-end example, and a later revision of the file
Example_MexicoMonaco ==
    <<Country(Str_MexicoAc, Str_Americas), Country(Str_Monaco, Str_Europe)>>

Example_Revised ==
    <<Country(Str_Monaco, Str_Americas), Country(Str_Mexico, Str_Europe)>>

\* the revisions of the file, oldest first
ServedRevisions == <<Example_MexicoMonaco, Example_Revised>>

RECURSIVE SeqsUpTo(_, _)
SeqsUpTo(S, n) ==
    IF n = 0 THEN {<<>>}
    ELSE LET shorter == SeqsUpTo(S, n - 1)
         IN  shorter \cup {Append(s, x) : s \in shorter, x \in S}

Datasets == SeqsUpTo(SampleCountries, MaxRecords)

\* JavaScript's undefined and null, as the value field of a record that holds no object
Undefined == "undefined"
Null      == "null"

\* updateGrid has not been applied yet
NoCall == [made |-> FALSE]
\* no input event yet, no update settled yet
NoInput   == [seen |-> FALSE]
NoSettled == [seen |-> FALSE]
\* findCountryByName has not run yet
NotLooked == [looked |-> FALSE]
\* document.getElementById / querySelector found no detail section
AbsentSection == [present |-> FALSE]
\* the detail section as the static page delivers it
InitialSection == [present |-> TRUE, children |-> <<[tag |-> "static"]>>]

\* ------------------------------------------------------------------- state
VARIABLES
    page,          \* which document is open: "index", "details", or "none" (filter alone)
    server,        \* the content of CountriesData.json as the server holds it now
    fetches,       \* fetch() calls made so far
    consoleErrors, \* console.error calls made so far
    uncaught,      \* exceptions that escaped a handler (unhandled rejections)
    call,          \* the last direct application of updateGrid or normalize, or NoCall
    grid,          \* children of .countries-grid, in document order
    loaded,        \* DOMContentLoaded has run on the index page
    inflight,      \* updates whose fetch has not settled: [id, kind, filterValue]
    issued,        \* number of fetches the index page has started (the newest id)
    interactions,  \* region selections and search inputs handled so far
    searchBox,     \* value of .search-input
    dropdownOpen,  \* .dropdown-wrapper has the class "open"
    toast,         \* "absent", "visible" or "hidden"
    toastTimers,   \* pending setTimeout callbacks of showToast
    lastInput,     \* the last input event: [typed, criterion, toasted, id], or NoInput
    lastSettled,   \* the last settled update: [ok, request, data, before, replaced]
    shownBy,       \* id of the update whose subset the grid shows (0: none yet)
    overlapped,    \* an interaction started while an earlier one's fetch was pending
    variant,       \* detail page script: "details.js" or "common.js"
    query,         \* the URL's query: [has |-> FALSE] or [has |-> TRUE, value |-> name]
    loader,        \* .loader: "absent", "shown" or "hidden"
    section,       \* the detail section: [present, children]
    pc,            \* position of the detail page's load handler
    settled,       \* what the detail page's fetch settled with, or NoSettled
    found          \* what findCountryByName returned, or NotLooked

sharedVars  == <<page, server, fetches, consoleErrors, uncaught>>
indexVars   == <<grid, loaded, inflight, issued, interactions, searchBox, dropdownOpen,
                 toast, toastTimers, lastInput, lastSettled, shownBy, overlapped>>
detailsVars == <<variant, query, loader, section, pc, settled, found>>
vars == <<sharedVars, call, indexVars, detailsVars>>

\* ------------------------------------------------------------- index.js
\* createCountryElement: the element built for one country
createCountryElement(country, isGrid) ==
    [tag |-> IF isGrid THEN "a" ELSE "section", country |-> country]

\* buildCountriesGrid: clears the target and appends one element per country
buildCountriesGrid(countries, isGrid) ==
    [i \in 1..Len(countries) |-> createCountryElement(countries[i], isGrid)]

\* the callback with the name compared as written (no normalize)
KeepCountryRawName(country, filterValue, isRegionFilter) ==
    IF isRegionFilter
    THEN filterValue = Str_all \/ normalize(country.region) = normalize(filterValue)
    ELSE startsWith(country.name, filterValue)

\* the callback without the 'all' bypass
KeepCountryNoBypass(country, filterValue, isRegionFilter) ==
    IF isRegionFilter
    THEN normalize(country.region) = normalize(filterValue)
    ELSE startsWith(normalize(country.name), normalize(filterValue))

\* the callback with the region compared as a prefix
KeepCountryRegionPrefix(country, filterValue, isRegionFilter) ==
    IF isRegionFilter
    THEN filterValue = Str_all
         \/ startsWith(normalize(country.region), normalize(filterValue))
    ELSE startsWith(normalize(country.name), normalize(filterValue))

\* the callback of countries.filter in updateGrid
KeepCountry(country, filterValue, isRegionFilter) ==
    IF isRegionFilter
    THEN filterValue = Str_all \/ normalize(country.region) = normalize(filterValue)
    ELSE startsWith(normalize(country.name), normalize(filterValue))

\* Array.prototype.filter with that callback
FilterCountries(countries, filterValue, isRegionFilter) ==
    SelectSeq(countries, LAMBDA country : KeepCountry(country, filterValue, isRegionFilter))

\* what updateGrid leaves in the grid once its fetch returned `countries`
updateGridRender(countries, filterValue, isRegionFilter) ==
    buildCountriesGrid(FilterCountries(countries, filterValue, isRegionFilter), TRUE)

IndexIdle ==
    /\ grid = <<>> /\ loaded = FALSE /\ inflight = {} /\ issued = 0
    /\ interactions = 0 /\ searchBox = <<>> /\ dropdownOpen = FALSE
    /\ toast = "absent" /\ toastTimers = 0 /\ lastInput = NoInput
    /\ lastSettled = NoSettled /\ shownBy = 0 /\ overlapped = FALSE

DetailsIdle ==
    /\ variant = "details.js" /\ query = [has |-> FALSE] /\ loader = "absent"
    /\ section = AbsentSection /\ pc = "idle" /\ settled = NoSettled
    /\ found = NotLooked

\* ------------------------------------------- the filter applied on its own
\* criteria: region tokens, search texts, and every prefix of a normalized name
Criteria ==
    { <<>>, Str_all, <<"A","l","l">>, Str_europe, Str_Europe, <<"e","u","r">>,
      <<"E","U","R","O","P","E">>, <<"e","u","r","o","p","e_acute">>,
      <<"a","m","e","r","i","c","a","s">>, <<"M","e">>, <<"m","e_acute">>,
      <<"m","e","x","i","c","o","s">>, <<"o">> }
    \cup UNION { { Prefix(normalize(c.name), k) : k \in 0..Len(normalize(c.name)) } :
                 c \in SampleCountries }

InitFilter ==
    /\ page = "none" /\ server \in Datasets
    /\ fetches = 0 /\ consoleErrors = 0 /\ uncaught = 0
    /\ call = NoCall
    /\ IndexIdle /\ DetailsIdle

\* updateGrid(filterValue, isRegionFilter) once fetchData has returned server
ApplyUpdateGrid ==
    /\ page = "none"
    /\ \E filterValue \in Criteria, isRegionFilter \in BOOLEAN :
          /\ call' = [made |-> TRUE, countries |-> server, filterValue |-> filterValue,
                      isRegionFilter |-> isRegionFilter]
          /\ grid' = updateGridRender(server, filterValue, isRegionFilter)
    /\ UNCHANGED <<sharedVars, detailsVars>>
    /\ UNCHANGED <<loaded, inflight, issued, interactions, searchBox, dropdownOpen,
                   toast, toastTimers, lastInput, lastSettled, shownBy, overlapped>>

NextFilter == ApplyUpdateGrid

SpecFilter == InitFilter /\ [][NextFilter]_vars

\* ------------------------------------------------ normalize applied on its own
\* characters of the strings given to normalize: letters of both cases, a
\* precomposed letter, and combining characters inside and outside U+0300-U+036F
NormalizeAlphabet == {"a", "E", "E_acute", "acute", "cgj", "alef", "etnahta", "sheva"}

InputStrings == SeqsUpTo(NormalizeAlphabet, MaxLen)

\* str is the input, argument what normalize was last given, result what it returned
InitNormalize ==
    /\ page = "none" /\ server = <<>>
    /\ fetches = 0 /\ consoleErrors = 0 /\ uncaught = 0
    /\ \E str \in InputStrings :
          call = [made |-> FALSE, str |-> str, argument |-> str, result |-> str,
                  stage |-> "input"]
    /\ IndexIdle /\ DetailsIdle

\* normalize(str), then normalize of what it returned
ApplyNormalize ==
    /\ page = "none" /\ call.stage # "twice"
    /\ call' = [made |-> TRUE, str |-> call.str, argument |-> call.result,
                result |-> normalize(call.result),
                stage |-> IF call.stage = "input" THEN "once" ELSE "twice"]
    /\ UNCHANGED <<sharedVars, indexVars, detailsVars>>

NextNormalize == ApplyNormalize

SpecNormalize == InitNormalize /\ [][NextNormalize]_vars

\* ------------------------------------------------------- index.js (grid page)
\* originalValue.replace(/[^a-zA-Z\s]/g, '')
SanitizeInput(originalValue) ==
    SelectSeq(originalValue, LAMBDA c : IsAsciiLetter(c) \/ IsWhitespace(c))

\* a notice whenever the criterion differs from what was typed
ShouldToastOnCriterion(originalValue, filteredValue) ==
    originalValue # trim(filteredValue)

\* if (originalValue !== filteredValue) showToast(...)
ShouldToast(originalValue, filteredValue) == originalValue # filteredValue

\* an update that aborts the fetches still in flight
startUpdateAborting(pending, q) == {q}

\* updateGrid awaits its own fetchData; fetches already in flight are left alone
startUpdate(pending, q) == pending \cup {q}

\* an update that filters the dataset a previous fetch returned, when there is one
datasetForCached(fetched, previous) ==
    IF previous.seen /\ previous.ok THEN previous.data ELSE fetched

\* const countries = await fetchData(jsonFilePath): the dataset this fetch returned
datasetFor(fetched, previous) == fetched

\* a catch block that empties the grid
updateGridCatchClearing(g) == <<>>

\* catch (error) { console.error(...) }: the grid is not touched
updateGridCatch(g) == g

\* what is typed into the search box, as event.target.value
TypedValues ==
    { <<"m","e">>, <<"sp","m","o">>, <<"m","d1","e","sp">>, <<"sp">> }

\* target.dataset.region of a click inside the dropdown body
RegionTargets ==
    { [has |-> FALSE], [has |-> TRUE, value |-> <<>>],
      [has |-> TRUE, value |-> Str_all], [has |-> TRUE, value |-> Str_europe] }

Init ==
    /\ page = "index" /\ server = ServedRevisions[1]
    /\ fetches = 0 /\ consoleErrors = 0 /\ uncaught = 0
    /\ call = NoCall
    /\ IndexIdle /\ DetailsIdle

Request(id, kind, filterValue) == [id |-> id, kind |-> kind, filterValue |-> filterValue]

\* DOMContentLoaded: the listeners are registered and the first fetch starts
IndexLoad ==
    /\ page = "index" /\ ~loaded
    /\ loaded' = TRUE
    /\ fetches' = fetches + 1
    /\ issued' = issued + 1
    /\ inflight' = startUpdate(inflight, Request(issued + 1, "init", <<>>))
    /\ UNCHANGED <<page, server, consoleErrors, uncaught, call, detailsVars>>
    /\ UNCHANGED <<grid, interactions, searchBox, dropdownOpen, toast, toastTimers,
                   lastInput, lastSettled, shownBy, overlapped>>

\* click on the dropdown header
DropdownHeaderClick ==
    /\ page = "index" /\ loaded
    /\ dropdownOpen' = ~dropdownOpen
    /\ UNCHANGED <<sharedVars, call, detailsVars>>
    /\ UNCHANGED <<grid, loaded, inflight, issued, interactions, searchBox, toast,
                   toastTimers, lastInput, lastSettled, shownBy, overlapped>>

\* click inside the dropdown body: without a region nothing happens, with one
\* updateGrid(selectedRegion, true) starts
RegionClick ==
    /\ page = "index" /\ loaded
    /\ \E target \in RegionTargets :
          IF ~target.has \/ target.value = <<>>
          THEN UNCHANGED <<fetches, issued, inflight, interactions, overlapped>>
          ELSE /\ interactions < MaxInteractions
               /\ interactions' = interactions + 1
               /\ overlapped' = (overlapped \/ \E p \in inflight : p.kind # "init")
               /\ fetches' = fetches + 1
               /\ issued' = issued + 1
               /\ inflight' = startUpdate(inflight,
                                          Request(issued + 1, "region", target.value))
    /\ UNCHANGED <<page, server, consoleErrors, uncaught, call, detailsVars>>
    /\ UNCHANGED <<grid, loaded, searchBox, dropdownOpen, toast, toastTimers,
                   lastInput, lastSettled, shownBy>>

\* input event of the search box: sanitize, notify, write back, trim, updateGrid
SearchInput ==
    /\ page = "index" /\ loaded
    /\ interactions < MaxInteractions
    /\ \E originalValue \in TypedValues :
          LET filteredValue      == SanitizeInput(originalValue)
              dataOfCountryInput == trim(filteredValue)
              toasted            == ShouldToast(originalValue, filteredValue)
          IN  /\ IF toasted
                 THEN toast' = "visible" /\ toastTimers' = toastTimers + 1
                 ELSE UNCHANGED <<toast, toastTimers>>
              /\ searchBox' = filteredValue
              /\ lastInput' = [seen |-> TRUE, typed |-> originalValue,
                               criterion |-> dataOfCountryInput, toasted |-> toasted,
                               id |-> issued + 1]
              /\ inflight' = startUpdate(inflight,
                                 Request(issued + 1, "search", dataOfCountryInput))
    /\ interactions' = interactions + 1
    /\ overlapped' = (overlapped \/ \E p \in inflight : p.kind # "init")
    /\ fetches' = fetches + 1
    /\ issued' = issued + 1
    /\ UNCHANGED <<page, server, consoleErrors, uncaught, call, detailsVars>>
    /\ UNCHANGED <<grid, loaded, dropdownOpen, lastSettled, shownBy>>

\* setTimeout callback of showToast
ToastTimeout ==
    /\ page = "index" /\ toastTimers > 0
    /\ toastTimers' = toastTimers - 1
    /\ toast' = "hidden"
    /\ UNCHANGED <<sharedVars, call, detailsVars>>
    /\ UNCHANGED <<grid, loaded, inflight, issued, interactions, searchBox,
                   dropdownOpen, lastInput, lastSettled, shownBy, overlapped>>

\* an update that filters the countries the grid already shows
FetchReturnsComposing(q) ==
    /\ grid' = IF q.kind = "init"
               THEN buildCountriesGrid(server, TRUE)
               ELSE updateGridRender([i \in 1..Len(grid) |-> grid[i].country],
                                     q.filterValue, q.kind = "region")
    /\ shownBy' = q.id
    /\ lastSettled' = [seen |-> TRUE, ok |-> TRUE, request |-> q, data |-> server,
                       before |-> grid, replaced |-> shownBy]
    /\ UNCHANGED consoleErrors

\* the fetch of one pending update returns the file's content: the page-load
\* handler renders all of it, updateGrid renders the filtered subset; a region
\* click then closes the dropdown
FetchReturns(q) ==
    /\ grid' = IF q.kind = "init"
               THEN buildCountriesGrid(server, TRUE)
               ELSE updateGridRender(datasetFor(server, lastSettled), q.filterValue,
                                     q.kind = "region")
    /\ shownBy' = q.id
    /\ lastSettled' = [seen |-> TRUE, ok |-> TRUE, request |-> q, data |-> server,
                       before |-> grid, replaced |-> shownBy]
    /\ UNCHANGED consoleErrors

\* the fetch of one pending update fails: fetchData logs and rethrows, the caller
\* logs, the grid stays
FetchFails(q) ==
    /\ grid' = updateGridCatch(grid)
    /\ consoleErrors' = consoleErrors + 2
    /\ lastSettled' = [seen |-> TRUE, ok |-> FALSE, request |-> q, before |-> grid]
    /\ UNCHANGED shownBy

FetchSettles ==
    /\ page = "index"
    /\ \E q \in inflight :
          /\ FetchReturns(q) \/ FetchFails(q)
          /\ inflight' = inflight \ {q}
          /\ dropdownOpen' = IF q.kind = "region" THEN FALSE ELSE dropdownOpen
    /\ UNCHANGED <<page, server, fetches, uncaught, call, detailsVars>>
    /\ UNCHANGED <<loaded, issued, interactions, searchBox, toast, toastTimers,
                   lastInput, overlapped>>

\* CountriesData.json is replaced on the server
ServerChange ==
    /\ page = "index"
    /\ \E i \in 1..Len(ServedRevisions) - 1 :
          server = ServedRevisions[i] /\ server' = ServedRevisions[i + 1]
    /\ UNCHANGED <<page, fetches, consoleErrors, uncaught, call, indexVars, detailsVars>>

Next ==
    \/ IndexLoad
    \/ DropdownHeaderClick
    \/ RegionClick
    \/ SearchInput
    \/ ToastTimeout
    \/ FetchSettles
    \/ ServerChange

Spec == Init /\ [][Next]_vars

\* ------------------------------------------ details.js / common.js (detail page)
\* getQueryParameter: URLSearchParams.get(param), null when the parameter is missing
getQueryParameter(q) ==
    IF q.has THEN [isNull |-> FALSE, value |-> q.value] ELSE [isNull |-> TRUE]

\* !countryName: null and the empty string are falsy
IsFalsyName(countryName) == countryName.isNull \/ countryName.value = <<>>

\* hideLoader without its assignment
hideLoaderNoop(l) == l

\* hideLoader: if (loader) loader.style.display = 'none'
hideLoader(l) == IF l = "absent" THEN l ELSE "hidden"

\* Array.prototype.find with country.name === name, from index i on
RECURSIVE FindFrom(_, _, _)
FindFrom(countries, name, i) ==
    IF i > Len(countries) THEN [looked |-> TRUE, hit |-> FALSE, value |-> Undefined]
    ELSE IF countries[i].name = name
         THEN [looked |-> TRUE, hit |-> TRUE, country |-> countries[i]]
         ELSE FindFrom(countries, name, i + 1)

\* a lookup that keeps the last match
RECURSIVE FindLastFrom(_, _, _)
FindLastFrom(countries, name, i) ==
    IF i < 1 THEN [looked |-> TRUE, hit |-> FALSE, value |-> Undefined]
    ELSE IF countries[i].name = name
         THEN [looked |-> TRUE, hit |-> TRUE, country |-> countries[i]]
         ELSE FindLastFrom(countries, name, i - 1)

findCountryByNameLast(countries, name, script) ==
    FindLastFrom(countries, name, Len(countries))

\* a lookup that compares normalized names
RECURSIVE FindNormalizedFrom(_, _, _)
FindNormalizedFrom(countries, name, i) ==
    IF i > Len(countries) THEN [looked |-> TRUE, hit |-> FALSE, value |-> Undefined]
    ELSE IF normalize(countries[i].name) = normalize(name)
         THEN [looked |-> TRUE, hit |-> TRUE, country |-> countries[i]]
         ELSE FindNormalizedFrom(countries, name, i + 1)

findCountryByNameNormalized(countries, name, script) ==
    FindNormalizedFrom(countries, name, 1)

\* findCountryByName: find(...) in details.js, find(...) || null in common.js
findCountryByName(countries, name, script) ==
    LET r == FindFrom(countries, name, 1)
    IN  IF ~r.hit /\ script = "common.js"
        THEN [looked |-> TRUE, hit |-> FALSE, value |-> Null]
        ELSE r

\* the name parameter values tried: empty, names of records, a name that differs
\* from a record's only by its accent, and a name no record has
QueryNames ==
    { <<>>, Str_MexicoAc, Str_Mexico, Str_Monaco, Str_Alef, <<"M","a","l","i">> }

InitDetails ==
    /\ page = "details" /\ server \in Datasets
    /\ fetches = 0 /\ consoleErrors = 0 /\ uncaught = 0
    /\ call = NoCall
    /\ IndexIdle
    /\ variant \in {"details.js", "common.js"}
    /\ query \in {[has |-> FALSE]} \cup {[has |-> TRUE, value |-> n] : n \in QueryNames}
    /\ loader \in {"absent", "shown"}
    /\ section \in {AbsentSection, InitialSection}
    /\ pc = "load" /\ settled = NoSettled /\ found = NotLooked

\* DOMContentLoaded: read the name; without one hide the loader and log, else fetch
DetailsLoad ==
    /\ page = "details" /\ pc = "load"
    /\ IF IsFalsyName(getQueryParameter(query))
       THEN /\ loader' = hideLoader(loader)
            /\ consoleErrors' = consoleErrors + 1
            /\ pc' = "done"
            /\ UNCHANGED fetches
       ELSE /\ fetches' = fetches + 1
            /\ pc' = "await"
            /\ UNCHANGED <<loader, consoleErrors>>
    /\ UNCHANGED <<page, server, uncaught, call, indexVars>>
    /\ UNCHANGED <<variant, query, section, settled, found>>

\* fetchData settles: the parsed JSON, or fetchData's catch logs and rethrows
DetailsFetchSettles ==
    /\ page = "details" /\ pc = "await"
    /\ \/ /\ settled' = [seen |-> TRUE, ok |-> TRUE, data |-> server]
          /\ pc' = "then"
          /\ UNCHANGED consoleErrors
       \/ /\ settled' = [seen |-> TRUE, ok |-> FALSE]
          /\ consoleErrors' = consoleErrors + 1
          /\ pc' = "catch"
    /\ UNCHANGED <<page, server, fetches, uncaught, call, indexVars>>
    /\ UNCHANGED <<variant, query, loader, section, found>>

\* the try body after the await (details.js), the then callback (common.js):
\* look the country up; throw when it is missing; replace the section's content,
\* which throws a TypeError when the page has no detail section
DetailsThen ==
    /\ page = "details" /\ pc = "then"
    /\ LET country == findCountryByName(settled.data, getQueryParameter(query).value,
                                        variant)
       IN  /\ found' = country
           /\ IF ~country.hit \/ ~section.present
              THEN pc' = "catch" /\ UNCHANGED section
              ELSE /\ section' = [present |-> TRUE,
                                  children |-> <<createCountryElement(country.country,
                                                                      FALSE)>>]
                   /\ pc' = "finally"
    /\ UNCHANGED <<sharedVars, call, indexVars>>
    /\ UNCHANGED <<variant, query, loader, settled>>

\* catch (error) { console.error(...) } / .catch((error) => logError(...))
DetailsCatch ==
    /\ page = "details" /\ pc = "catch"
    /\ consoleErrors' = consoleErrors + 1
    /\ pc' = "finally"
    /\ UNCHANGED <<page, server, fetches, uncaught, call, indexVars>>
    /\ UNCHANGED <<variant, query, loader, section, settled, found>>

\* finally { hideLoader(loader) } / .finally(() => hideLoader(loader))
DetailsFinally ==
    /\ page = "details" /\ pc = "finally"
    /\ loader' = hideLoader(loader)
    /\ pc' = "done"
    /\ UNCHANGED <<sharedVars, call, indexVars>>
    /\ UNCHANGED <<variant, query, section, settled, found>>

NextDetails ==
    \/ DetailsLoad
    \/ DetailsFetchSettles
    \/ DetailsThen
    \/ DetailsCatch
    \/ DetailsFinally

\* the browser settles every fetch and runs every queued continuation
SpecDetails == InitDetails /\ [][NextDetails]_vars /\ WF_vars(NextDetails)

\* ------------------------------------------------------------- either page
InitPages == Init \/ InitDetails

NextPages == Next \/ NextDetails

SpecPages == InitPages /\ [][NextPages]_vars

\* ---------------------------------------------------- properties of the filter
GridCountries == [i \in 1..Len(grid) |-> grid[i].country]

\* the j-th smallest index of S
NthOf(S, j) == CHOOSE i \in S : Cardinality({m \in S : m <= i}) = j

\* shown is exactly the records of countries at the indexes S, in dataset order
IsSubsetInOrder(shown, countries, S) ==
    /\ Len(shown) = Cardinality(S)
    /\ \A j \in 1..Len(shown) : shown[j] = countries[NthOf(S, j)]

NameMatches(countries, filterValue) ==
    {i \in 1..Len(countries) :
        startsWith(normalize(countries[i].name), normalize(filterValue))}

RegionMatches(countries, filterValue) ==
    {i \in 1..Len(countries) :
        normalize(countries[i].region) = normalize(filterValue)}

IsShown(country) == \E j \in 1..Len(grid) : grid[j].country = country

LettersAndSpaces(s) == \A i \in 1..Len(s) : IsAsciiLetter(s[i]) \/ IsWhitespace(s[i])

SearchCall == call.made /\ ~call.isRegionFilter
RegionCall == call.made /\ call.isRegionFilter

\* C1 as stated: in search mode the grid shows exactly the records whose normalized
\* name starts with the normalized criterion, in dataset order; every prefix of a
\* record's normalized name, whatever characters it holds, keeps that record; and
\* the empty criterion shows every record.
C1_PrefixOfAnyNormalizedName ==
    SearchCall =>
        /\ IsSubsetInOrder(GridCountries, call.countries,
                           NameMatches(call.countries, call.filterValue))
        /\ \A i \in 1..Len(call.countries) :
              (\E k \in 0..Len(normalize(call.countries[i].name)) :
                   call.filterValue = Prefix(normalize(call.countries[i].name), k))
              => IsShown(call.countries[i])
        /\ (call.filterValue = <<>> => GridCountries = call.countries)

\* C1 amended: in search mode the grid shows exactly the records whose normalized
\* name starts with the normalized criterion, in dataset order; every prefix of a
\* record's normalized name that is made of letters and whitespace (all that the
\* search handler lets through) keeps that record; the empty criterion shows all.
C1_SearchShowsPrefixMatches ==
    SearchCall =>
        /\ IsSubsetInOrder(GridCountries, call.countries,
                           NameMatches(call.countries, call.filterValue))
        /\ \A i \in 1..Len(call.countries) :
              (/\ LettersAndSpaces(call.filterValue)
               /\ \E k \in 0..Len(normalize(call.countries[i].name)) :
                    call.filterValue = Prefix(normalize(call.countries[i].name), k))
              => IsShown(call.countries[i])
        /\ (call.filterValue = <<>> => GridCountries = call.countries)

\* a search for "mex" over Mexico (written with e-acute) and Monaco shows Mexico alone
C1_Witness ==
    /\ SearchCall
    /\ call.countries = Example_MexicoMonaco
    /\ call.filterValue = <<"m","e","x">>
    /\ GridCountries = <<Country(Str_MexicoAc, Str_Americas)>>

\* C2: in region mode the criterion 'all' shows every record, in dataset order,
\* whatever the records' regions are.
C2_RegionAllIsIdentity ==
    (RegionCall /\ call.filterValue = Str_all) => GridCountries = call.countries

\* 'all' over two records of different regions, neither of them "all", shows both
C2_Witness ==
    /\ RegionCall /\ call.filterValue = Str_all
    /\ Len(call.countries) = 2
    /\ call.countries[1].region # call.countries[2].region
    /\ Len(grid) = 2

\* C3: in region mode with a criterion other than 'all' the grid shows exactly the
\* records whose normalized region equals the normalized criterion (the whole
\* string, not a prefix), in dataset order; "europe" over Mexico/Americas and
\* Monaco/Europe shows Monaco alone.
C3_RegionShowsEqualRegions ==
    (RegionCall /\ call.filterValue # Str_all) =>
        /\ IsSubsetInOrder(GridCountries, call.countries,
                           RegionMatches(call.countries, call.filterValue))
        /\ (call.countries = Example_MexicoMonaco /\ call.filterValue = Str_europe
              => GridCountries = <<Country(Str_Monaco, Str_Europe)>>)

\* "europe" over Mexico/Americas and Monaco/Europe has shown Monaco alone
C3_Witness ==
    /\ RegionCall /\ call.filterValue = Str_europe
    /\ call.countries = Example_MexicoMonaco
    /\ Len(grid) = 1 /\ grid[1].country.name = Str_Monaco

\* ------------------------------------------------------ properties of normalize
NormalizedTwice == call.stage = "twice"

\* C11 as stated: normalize is idempotent: for every string s,
\* normalize(normalize(s)) equals normalize(s).
C11_NormalizeIdempotent ==
    NormalizedTwice => call.result = call.argument

\* C11 amended: normalize is idempotent on every string that holds no U+034F
\* (the one character of U+0300-U+036F whose combining class is 0): for such s,
\* normalize(normalize(s)) equals normalize(s), where normalize decomposes
\* precomposed letters, strips the characters of U+0300-U+036F and lowercases.
C11_NormalizeIdempotentWithoutJoiner ==
    (NormalizedTwice /\ "cgj" \notin Range(call.str)) =>
        /\ call.result = call.argument
        /\ call.argument = normalize(call.str)
        /\ \A i \in 1..Len(call.result) :
              /\ ~InStrippedRange(call.result[i])
              /\ Decompose(call.result[i]) = <<call.result[i]>>
              /\ ToLower(call.result[i]) = call.result[i]

\* an uppercase precomposed letter followed by two marks outside the stripped
\* range, given out of canonical order, normalized twice
C11_Witness ==
    /\ NormalizedTwice
    /\ call.str = <<"E_acute", "etnahta", "sheva">>
    /\ call.argument = <<"e", "sheva", "etnahta">>
    /\ call.result = <<"e", "sheva", "etnahta">>

\* ------------------------------------------------- properties of the grid page
\* what the update q renders from the dataset its fetch returned
RenderOf(q, data) ==
    IF q.kind = "init" THEN buildCountriesGrid(data, TRUE)
    ELSE updateGridRender(data, q.filterValue, q.kind = "region")

\* one fetch per page load and one per region selection or search input
OneFetchPerTrigger == fetches = (IF loaded THEN 1 ELSE 0) + interactions

\* C7: a pending update leaves the in-flight set only when its own fetch settles
\* (a newer update cancels nothing), and a fetch that returns overwrites the grid
\* with its own subset even when newer updates have been started since.
C7_NothingCancelledEachResultOverwrites ==
    [][\A q \in inflight :
          q \notin inflight' =>
              /\ lastSettled'.seen /\ lastSettled'.request = q
              /\ lastSettled'.ok => grid' = RenderOf(q, server)]_vars

\* every fetch has settled, the newest update rendered first and an older one
\* rendered after it: the grid shows the older criterion's subset
C7_Witness ==
    /\ page = "index" /\ inflight = {}
    /\ lastSettled.seen /\ lastSettled.ok
    /\ lastSettled.replaced = issued
    /\ lastSettled.request.id < issued
    /\ lastSettled.request.kind # "init"
    /\ grid # lastSettled.before

\* C8: one fetch is made at page load and one more for every region selection or
\* search input, and the grid an update renders is filtered from the dataset its
\* own fetch returned, not from one an earlier fetch returned.
C8_OneFetchPerTriggerNoCache ==
    /\ OneFetchPerTrigger
    /\ Cardinality(inflight) <= fetches
    /\ (lastSettled.seen /\ lastSettled.ok) =>
          grid = RenderOf(lastSettled.request, lastSettled.data)

\* the page load rendered the first revision of the file, the file changed, and the
\* search that followed rendered from the second revision
C8_Witness ==
    /\ page = "index" /\ fetches = 2
    /\ lastSettled.seen /\ lastSettled.ok
    /\ lastSettled.request.kind = "search"
    /\ lastSettled.request.filterValue = <<"m","e">>
    /\ lastSettled.before = buildCountriesGrid(Example_MexicoMonaco, TRUE)
    /\ lastSettled.data = Example_Revised
    /\ GridCountries = <<Country(Str_Mexico, Str_Europe)>>

\* C9 as stated: after a failed fetch there was one attempt and no retry, nothing
\* escaped the handler, and the user sees a message or an empty grid.
C9_FailureShowsMessageOrEmptyGrid ==
    (lastSettled.seen /\ ~lastSettled.ok) =>
        /\ OneFetchPerTrigger
        /\ lastSettled.request \notin inflight
        /\ uncaught = 0
        /\ consoleErrors >= 2
        /\ grid = <<>> \/ toast = "visible"

\* C9 amended: a failed fetch is not retried (one attempt per trigger, the update
\* is no longer pending), nothing escapes the handler, the failure is logged by
\* fetchData and by its caller, and no message is put on the page: the grid keeps
\* what it showed (it is empty only if nothing had been rendered yet), the detail
\* section keeps its content and the detail page's loader ends hidden.
C9_FailureLeavesPageAsItWas ==
    [][/\ (lastSettled' # lastSettled /\ ~lastSettled'.ok) =>
             /\ fetches' = fetches /\ OneFetchPerTrigger'
             /\ lastSettled'.request \in inflight
             /\ inflight' = inflight \ {lastSettled'.request}
             /\ uncaught' = 0
             /\ consoleErrors' = consoleErrors + 2
             /\ grid' = grid
             /\ toast' = toast /\ searchBox' = searchBox
       /\ (page = "details" /\ settled'.seen /\ ~settled'.ok) =>
             /\ fetches' = 1 /\ uncaught' = 0
             /\ section' = section
             /\ pc' \in {"catch", "finally", "done"}
             /\ pc' = "done" => (consoleErrors' = 2 /\ loader' # "shown")]_vars

\* the page load rendered both countries, then a search's fetch failed: the grid
\* still shows both and no notice is visible
C9_Witness ==
    /\ page = "index" /\ lastSettled.seen /\ ~lastSettled.ok
    /\ lastSettled.request.kind = "search"
    /\ inflight = {} /\ fetches = 2 /\ consoleErrors = 2
    /\ Len(grid) = 2 /\ toast # "visible"

\* indexes of the typed characters that are letters or whitespace
AllowedIndexes(typed) ==
    {i \in 1..Len(typed) : IsAsciiLetter(typed[i]) \/ IsWhitespace(typed[i])}

\* the typed value without the characters outside [A-Za-z\s], order kept
WithoutForbidden(typed) ==
    [j \in 1..Cardinality(AllowedIndexes(typed)) |-> typed[NthOf(AllowedIndexes(typed), j)]]

SomethingForbidden(typed) == AllowedIndexes(typed) # 1..Len(typed)

\* c is s without its leading and trailing whitespace
IsTrimmed(c, s) ==
    \E a \in 1..Len(s) + 1, b \in 0..Len(s) :
        /\ c = SubSeq(s, a, b)
        /\ \A i \in 1..Len(s) : (i < a \/ i > b) => IsWhitespace(s[i])
        /\ c # <<>> => ~IsWhitespace(c[1]) /\ ~IsWhitespace(c[Len(c)])

\* C10 as stated: the criterion of a search input is the typed value without the
\* characters outside [A-Za-z\s], and the notice is shown exactly when a character
\* was removed.
C10_CriterionIsTypedWithoutForbidden ==
    lastInput.seen =>
        /\ LettersAndSpaces(lastInput.criterion)
        /\ lastInput.criterion = WithoutForbidden(lastInput.typed)
        /\ lastInput.toasted <=> SomethingForbidden(lastInput.typed)

\* C10 amended: the criterion of a search input is the typed value without the
\* characters outside [A-Za-z\s], then trimmed of leading and trailing whitespace;
\* the notice is shown exactly when a character outside [A-Za-z\s] was removed
\* (trimming shows none).
C10_CriterionIsSanitizedAndTrimmed ==
    lastInput.seen =>
        /\ LettersAndSpaces(lastInput.criterion)
        /\ IsTrimmed(lastInput.criterion, WithoutForbidden(lastInput.typed))
        /\ lastInput.toasted <=> SomethingForbidden(lastInput.typed)
        /\ \A q \in inflight :
              q.id = lastInput.id => q.kind = "search" /\ q.filterValue = lastInput.criterion

\* "m1e " was typed: the digit went, the notice is visible, the box holds "me "
\* and the update asks for "me"
C10_Witness ==
    /\ lastInput.seen /\ lastInput.typed = <<"m","d1","e","sp">>
    /\ lastInput.criterion = <<"m","e">> /\ lastInput.toasted
    /\ searchBox = <<"m","e","sp">> /\ toast = "visible"
    /\ \E q \in inflight : q.kind = "search" /\ q.filterValue = <<"m","e">>


\* indexes of the records of data that the criterion of update q keeps, by that
\* criterion alone
KeptBy(q, data) ==
    IF q.kind = "search" THEN NameMatches(data, q.filterValue)
    ELSE IF q.filterValue = Str_all THEN 1..Len(data)
    ELSE RegionMatches(data, q.filterValue)

\* some region selections and search inputs were made, none while an earlier
\* one's fetch was pending, and every fetch has settled
AfterNonOverlapping ==
    /\ page = "index" /\ interactions > 0 /\ ~overlapped /\ inflight = {}
    /\ lastSettled.seen

LatestSettledLast ==
    lastSettled.request.id = issued /\ lastSettled.request.kind \in {"region", "search"}

\* C12 as stated: after any sequence of non-overlapping region selections and
\* search inputs, the grid shows the full dataset (a revision the server has
\* held) filtered by the most recent interaction's criterion alone.
C12_GridFilteredByLatestCriterion ==
    (AfterNonOverlapping /\ LatestSettledLast) =>
        \E r \in 1..Len(ServedRevisions) :
            IsSubsetInOrder(GridCountries, ServedRevisions[r],
                            KeptBy(lastSettled.request, ServedRevisions[r]))

\* C12 amended: region and search filtering never compose: after any sequence
\* of non-overlapping region selections and search inputs whose latest fetch
\* was the last to settle, the grid shows the dataset that fetch returned
\* filtered by the most recent interaction's criterion alone when the fetch
\* succeeded, and is left as it was when the fetch failed, regardless of the
\* text still in the search box or the region chosen earlier.
C12_GridFilteredByLatestSuccessfulCriterion ==
    (AfterNonOverlapping /\ LatestSettledLast) =>
        IF lastSettled.ok
        THEN /\ shownBy = issued
             /\ IsSubsetInOrder(GridCountries, lastSettled.data,
                                KeptBy(lastSettled.request, lastSettled.data))
        ELSE /\ shownBy < issued
             /\ grid = lastSettled.before

\* "me" was searched and rendered, then the region "europe" was selected and
\* rendered: the box still reads "me" and the grid shows Monaco alone
C12_Witness ==
    /\ AfterNonOverlapping /\ LatestSettledLast /\ lastSettled.ok
    /\ interactions = 2
    /\ searchBox = <<"m", "e">>
    /\ lastSettled.request.kind = "region"
    /\ lastSettled.request.filterValue = Str_europe
    /\ lastSettled.data = Example_MexicoMonaco
    /\ lastSettled.before = buildCountriesGrid(<<Country(Str_MexicoAc, Str_Americas)>>, TRUE)
    /\ GridCountries = <<Country(Str_Monaco, Str_Europe)>>

\* ----------------------------------------------- properties of the detail page
CountryName == getQueryParameter(query).value

\* indexes of the fetched records whose name is exactly the requested one
ExactMatches ==
    {i \in 1..Len(settled.data) : settled.data[i].name = CountryName}

\* the lookup has run on the fetched dataset
LookedUp == page = "details" /\ found.looked

ShowsNotFound ==
    section.present /\ \E i \in 1..Len(section.children) :
                           section.children[i].tag = "not-found"

\* C4 as stated: for every record r of the dataset, looking up r.name returns r itself.
C4_LookupReturnsEveryRecord ==
    LookedUp =>
        \A i \in ExactMatches : found.hit /\ found.country = settled.data[i]

\* C4 amended: looking up r.name returns the first record of the dataset whose name
\* is exactly r.name (r itself when no earlier record shares its name); names are
\* compared as written, so a record that matches only after normalization is not
\* returned.
C4_LookupReturnsFirstExactMatch ==
    LookedUp =>
        /\ ExactMatches # {} =>
              /\ found.hit
              /\ found.country = settled.data[NthOf(ExactMatches, 1)]
        /\ found.hit => found.country.name = CountryName

\* two records named Monaco: the lookup returned the first, not the second
C4_Witness ==
    /\ LookedUp /\ found.hit
    /\ Cardinality(ExactMatches) = 2
    /\ found.country = settled.data[1]
    /\ found.country # settled.data[2]

\* C5 as stated: when no record has the requested name the lookup returns a
\* not-found value, nothing escapes the handler, and the finished page shows a
\* not-found indication in the detail section.
C5_NotFoundIsShown ==
    (LookedUp /\ ExactMatches = {}) =>
        /\ ~found.hit /\ uncaught = 0
        /\ pc = "done" => ShowsNotFound

\* C5 amended: when no record has the requested name the lookup returns a
\* not-found value (undefined or null), nothing escapes the handler, the miss is
\* logged on the console, the loader is released, and the detail section keeps
\* the content it had: no not-found indication is rendered.
C5_NotFoundIsLoggedOnly ==
    (LookedUp /\ ExactMatches = {}) =>
        /\ ~found.hit /\ found.value \in {Undefined, Null}
        /\ uncaught = 0 /\ pc \in {"catch", "finally", "done"}
        /\ section \in {AbsentSection, InitialSection}
        /\ pc \in {"finally", "done"} => consoleErrors = 1
        /\ pc = "done" => loader # "shown"

\* "Mexico" requested, the dataset holds only the accented spelling: not found,
\* logged, loader hidden, section untouched
C5_Witness ==
    /\ LookedUp /\ pc = "done"
    /\ CountryName = Str_Mexico
    /\ Len(settled.data) > 0
    /\ \A i \in 1..Len(settled.data) : settled.data[i].name = Str_MexicoAc
    /\ ~found.hit /\ consoleErrors = 1
    /\ loader = "hidden" /\ section = InitialSection

\* C6: every run of the detail page's load handler ends, and ends with the loader
\* released; once released it is never shown again.
C6_LoaderAlwaysReleased ==
    /\ <>(pc = "done")
    /\ [](pc = "done" => loader # "shown")
    /\ [][loader # "shown" => loader' # "shown"]_vars

\* the run where rendering threw (the country was found, the page has no detail
\* section) ended with the loader hidden
C6_Witness ==
    /\ page = "details" /\ pc = "done"
    /\ found.looked /\ found.hit /\ ~section.present
    /\ loader = "hidden" /\ consoleErrors = 1

====
